---- MODULE Spec2Model ----
(***************************************************************************)
(* Model of write_object and update_vertex_indices of src/utils.py: the    *)
(* boundary mesh filter that writes the kept vertices, the kept texture    *)
(* rows and the faces whose three vertex references all lie in the         *)
(* boundary, renumbered through idx_mapping.                               *)
(*                                                                         *)
(* A text line is a record [pre, row, toks]: pre is the record prefix      *)
(* ("v", "vt" or "f"), row the numeric payload of a v/vt line (an opaque   *)
(* row identity) and toks the space-separated tokens of an f line.  A      *)
(* token is the sequence of its slash-separated components and a           *)
(* component is the sequence of its decimal digits (<<>> when the regular  *)
(* expression's \d* matched nothing).                                      *)
(***************************************************************************)
EXTENDS Integers, Sequences, FiniteSets, TLC

VARIABLES index, index_, idx_mapping, vertices, texture, objFile, out,
          pc, err, i, format, chosen, fpos, emitted, run, firstFaces

vars == <<index, index_, idx_mapping, vertices, texture, objFile, out,
          pc, err, i, format, chosen, fpos, emitted, run, firstFaces>>

\* Bounds of the explored inputs.
MaxB == 4
MaxLines == 3
NumV == 4

----------------------------------------------------------------------------
\* Pure helpers

RECURSIVE Str(_)
\* str(n) of a non-negative int: its decimal digits.
Str(n) == IF n < 10 THEN <<n>> ELSE Str(n \div 10) \o <<n % 10>>

RECURSIVE ParseInt(_)
\* int(ds) of a non-empty digit string.
ParseInt(ds) ==
    IF Len(ds) = 1 THEN ds[1]
    ELSE ParseInt(SubSeq(ds, 1, Len(ds) - 1)) * 10 + ds[Len(ds)]

\* int('') raises ValueError.
CanParse(ds) == Len(ds) > 0

\* numpy row access table[idx] on a 0-based table: negative indices wrap.
InBounds(table, idx) == idx < Len(table) /\ idx >= 0 - Len(table)

NpGet(table, idx) ==
    IF idx >= 0 THEN table[idx + 1] ELSE table[Len(table) + idx + 1]

VLine(r) == [pre |-> "v", row |-> r, toks |-> <<>>]
TLine(r) == [pre |-> "vt", row |-> r, toks |-> <<>>]
FLine(ts) == [pre |-> "f", row |-> 0, toks |-> ts]

IsV(l) == l.pre = "v"
IsT(l) == l.pre = "vt"
IsF(l) == l.pre = "f"

\* WriteLine that puts the line in front.
WriteLineInFront(s, line) == <<line>> \o s

\* s.write(...): the line goes to the end of the output file.
WriteLine(s, line) == Append(s, line)

\* set(index)
IndexSet(ix) == {ix[k] : k \in 1..Len(ix)}

EmptyMap == [k \in {} |-> 0]

\* NewIndex without the 1-based shift.
NewIndexZeroBased(pos) == pos

\* indices start at 1 for .obj files
NewIndex(pos) == pos + 1

\* MapInsert that keeps the index of a value already mapped.
MapInsertKeepFirst(m, idx, pos) ==
    [k \in DOMAIN m \cup {idx} |->
        IF k \in DOMAIN m THEN m[k] ELSE NewIndex(pos)]

\* MapInsert keyed by the position instead of the boundary value.
MapInsertByPosition(m, idx, pos) ==
    [k \in DOMAIN m \cup {pos} |-> IF k = pos THEN NewIndex(pos) ELSE m[k]]

\* idx_mapping[idx] = i + 1
MapInsert(m, idx, pos) ==
    [k \in DOMAIN m \cup {idx} |-> IF k = idx THEN NewIndex(pos) ELSE m[k]]

\* TextureRows selected by the position in index instead of its value.
TextureRowsByPosition(tex, ix) == [k \in 1..Len(ix) |-> NpGet(tex, k - 1)]

\* texture[index]: the rows of texture selected by index, in index's order.
TextureRows(tex, ix) == [k \in 1..Len(ix) |-> NpGet(tex, ix[k])]

\* "(f(?:\ \d*\/\d*\/\d*){3}\n)"
MatchesFormat1(l) ==
    /\ l.pre = "f"
    /\ Len(l.toks) = 3
    /\ \A j \in 1..3 : Len(l.toks[j]) = 3

\* "(f(?:\ \d*\/\d*){3}\n)"
MatchesFormat2(l) ==
    /\ l.pre = "f"
    /\ Len(l.toks) = 3
    /\ \A j \in 1..3 : Len(l.toks[j]) = 2

Format1(read) == SelectSeq(read, MatchesFormat1)
Format2(read) == SelectSeq(read, MatchesFormat2)

\* SelectFormat with the tie going to the first pattern.
SelectFormatTieFirst(f1, f2) == IF Len(f1) >= Len(f2) THEN "A" ELSE "B"

\* format = format1 if len(format1) > len(format2) else format2
SelectFormat(f1, f2) == IF Len(f1) > Len(f2) THEN "A" ELSE "B"

\* x.split("/")[0] of every token
FaceRefs(face) == [j \in 1..Len(face.toks) |-> face.toks[j][1]]

FaceParses(face) == \A j \in 1..Len(face.toks) : CanParse(FaceRefs(face)[j])

\* get_vertex_indices: the set of the parsed vertex references
get_vertex_indices(face) ==
    {ParseInt(FaceRefs(face)[j]) : j \in 1..Len(face.toks)}

\* KeepFace satisfied by any boundary vertex.
KeepFaceAny(vtx, seen) == vtx \cap seen # {}

\* KeepFace as a plain subset test.
KeepFaceSubset(vtx, seen) == vtx \subseteq seen

\* len(vtx.intersection(index_)) == 3
KeepFace(vtx, seen) == Cardinality(vtx \cap seen) = 3

\* FaceToken that keeps the texture index of the source token.
FaceTokenKeepTexture(tok, mapping) ==
    <<Str(mapping[ParseInt(tok[1])]), tok[2]>>

\* str(mapping[idx]) + "/" + str(mapping[idx])
FaceToken(tok, mapping) ==
    <<Str(mapping[ParseInt(tok[1])]), Str(mapping[ParseInt(tok[1])])>>

\* update_vertex_indices: raises KeyError when a reference is no key.
MappingHas(face, mapping) ==
    \A j \in 1..Len(face.toks) : ParseInt(FaceRefs(face)[j]) \in DOMAIN mapping

update_vertex_indices(face, mapping) ==
    FLine([j \in 1..Len(face.toks) |-> FaceToken(face.toks[j], mapping)])

----------------------------------------------------------------------------
\* Inputs

SeqsUpTo(S, n) == UNION {[1..k -> S] : k \in 0..n}

\* A "v/vt" (n = 2) or "v/vt/vn" (n = 3) token whose texture index differs
\* from its vertex index.
Tok(n, v) ==
    IF n = 2 THEN <<Str(v), Str(v + 4)>> ELSE <<Str(v), Str(v + 4), <<9>>>>

FaceOf(n, a, b, c) == FLine(<<Tok(n, a), Tok(n, b), Tok(n, c)>>)

\* "f /5 2/6 3/7": matched by \d*, with no digits in the first reference.
EmptyRefFace == FLine(<< <<<<>>, <<5>>>>, Tok(2, 2), Tok(2, 3) >>)

\* "f 01/5 2/6 3/7": a reference written with a leading zero.
LeadingZeroFace == FLine(<< <<<<0, 1>>, <<5>>>>, Tok(2, 2), Tok(2, 3) >>)

\* "f 2/6 3/7": two references only, matched by neither pattern.
ShortFace == FLine(<<Tok(2, 2), Tok(2, 3)>>)

CatalogueLines ==
    { FaceOf(3, 1, 2, 3), FaceOf(2, 1, 2, 3), FaceOf(2, 2, 0, 1),
      FaceOf(3, 2, 2, 1), FaceOf(2, 1, 2, 10), EmptyRefFace,
      LeadingZeroFace, ShortFace }

SampleFiles ==
    { <<FaceOf(2, 1, 2, 3), FaceOf(2, 1, 2, 10), FaceOf(2, 2, 0, 1)>>,
      <<FaceOf(3, 1, 2, 3), FaceOf(3, 2, 2, 1), FaceOf(2, 1, 2, 3)>>,
      <<FaceOf(3, 1, 2, 3), FaceOf(2, 2, 0, 1)>> }

SampleBoundaries == { <<1, 2, 3>>, <<2, 1, 0>>, <<1, 2>> }

\* values of the boundary array: -1 (numpy's last row) up to one past the
\* smaller vertex table
BoundaryValues == (0 - 1)..(NumV - 1)

VertexTable(n) == [k \in 1..n |-> 100 + k]
TextureTable(n) == [k \in 1..n |-> 200 + k]

\* <<rows of vertices, rows of texture>>
TableShapes == { <<NumV, NumV>>, <<NumV - 1, NumV - 1>>, <<NumV, NumV - 1>> }

----------------------------------------------------------------------------
\* write_object up to "index_ = set(index)"
Entry(ix, vs, ts, file) ==
    /\ index = ix
    /\ vertices = vs
    /\ texture = ts
    /\ objFile = file
    /\ index_ = IndexSet(ix)
    /\ idx_mapping = EmptyMap
    /\ out = <<>>
    /\ pc = "vertices"
    /\ err = "none"
    /\ i = 0
    /\ format = <<>>
    /\ chosen = "none"
    /\ fpos = 0
    /\ emitted = <<>>

Init ==
    /\ run = 1
    /\ firstFaces = {}
    /\ \E sh \in TableShapes :
         \/ \E ix \in SeqsUpTo(BoundaryValues, MaxB), file \in SampleFiles :
              Entry(ix, VertexTable(sh[1]), TextureTable(sh[2]), file)
         \/ \E ix \in SampleBoundaries, file \in SeqsUpTo(CatalogueLines, MaxLines) :
              Entry(ix, VertexTable(sh[1]), TextureTable(sh[2]), file)

\* for i, idx in enumerate(index): one iteration
WriteVertex ==
    /\ pc = "vertices" /\ err = "none"
    /\ i < Len(index)
    /\ LET idx == index[i + 1] IN
         IF ~InBounds(vertices, idx)
         THEN /\ err' = "IndexError"
              /\ UNCHANGED <<idx_mapping, out, i>>
         ELSE /\ idx_mapping' = MapInsert(idx_mapping, idx, i)
              /\ out' = WriteLine(out, VLine(NpGet(vertices, idx)))
              /\ i' = i + 1
              /\ err' = err
    /\ UNCHANGED <<index, index_, vertices, texture, objFile, pc, format,
                   chosen, fpos, emitted, run, firstFaces>>

RECURSIVE WriteAll(_, _)
WriteAll(s, lines) ==
    IF lines = <<>> THEN s
    ELSE WriteAll(WriteLine(s, Head(lines)), Tail(lines))

\* for lin in texture[index]: the whole loop
WriteTextures ==
    /\ pc = "vertices" /\ err = "none"
    /\ i = Len(index)
    /\ IF \E k \in 1..Len(index) : ~InBounds(texture, index[k])
       THEN /\ err' = "IndexError"
            /\ UNCHANGED <<out, pc>>
       ELSE /\ out' = WriteAll(out, [k \in 1..Len(index) |->
                                        TLine(TextureRows(texture, index)[k])])
            /\ pc' = "detect"
            /\ err' = err
    /\ UNCHANGED <<index, index_, idx_mapping, vertices, texture, objFile, i,
                   format, chosen, fpos, emitted, run, firstFaces>>

\* read, the two findall calls and the choice of format
DetectFormat ==
    /\ pc = "detect" /\ err = "none"
    /\ chosen' = SelectFormat(Format1(objFile), Format2(objFile))
    /\ format' = IF chosen' = "A" THEN Format1(objFile) ELSE Format2(objFile)
    /\ pc' = "faces"
    /\ UNCHANGED <<index, index_, idx_mapping, vertices, texture, objFile, out,
                   err, i, fpos, emitted, run, firstFaces>>

\* for face_idxs in format: one iteration
FilterFace ==
    /\ pc = "faces" /\ err = "none"
    /\ fpos < Len(format)
    /\ LET face_idxs == format[fpos + 1] IN
         IF ~FaceParses(face_idxs)
         THEN /\ err' = "ValueError"
              /\ UNCHANGED <<out, fpos, emitted>>
         ELSE IF ~KeepFace(get_vertex_indices(face_idxs), index_)
         THEN /\ fpos' = fpos + 1
              /\ UNCHANGED <<out, err, emitted>>
         ELSE IF ~MappingHas(face_idxs, idx_mapping)
         THEN /\ err' = "KeyError"
              /\ UNCHANGED <<out, fpos, emitted>>
         ELSE /\ out' = WriteLine(out, update_vertex_indices(face_idxs, idx_mapping))
              /\ emitted' = Append(emitted, fpos + 1)
              /\ fpos' = fpos + 1
              /\ err' = err
    /\ UNCHANGED <<index, index_, idx_mapping, vertices, texture, objFile, pc,
                   i, format, chosen, run, firstFaces>>

\* the face loop is exhausted and both files are closed
Finish ==
    /\ pc = "faces" /\ err = "none"
    /\ fpos = Len(format)
    /\ pc' = "done"
    /\ UNCHANGED <<index, index_, idx_mapping, vertices, texture, objFile, out,
                   err, i, format, chosen, fpos, emitted, run, firstFaces>>

Rows(lines) == [k \in 1..Len(lines) |-> lines[k].row]

FaceSet(s) == {s[k] : k \in {n \in 1..Len(s) : IsF(s[n])}}

\* write_object called again on the file the first call wrote, with the
\* boundary 1..|B|
Refilter ==
    /\ run = 1 /\ pc = "done"
    /\ run' = 2
    /\ firstFaces' = FaceSet(out)
    /\ index' = [k \in 1..Len(index) |-> k]
    /\ index_' = IndexSet(index')
    /\ vertices' = Rows(SelectSeq(out, IsV))
    /\ texture' = Rows(SelectSeq(out, IsT))
    /\ objFile' = out
    /\ idx_mapping' = EmptyMap
    /\ out' = <<>>
    /\ pc' = "vertices"
    /\ i' = 0
    /\ format' = <<>>
    /\ chosen' = "none"
    /\ fpos' = 0
    /\ emitted' = <<>>
    /\ UNCHANGED err

Next ==
    \/ WriteVertex
    \/ WriteTextures
    \/ DetectFormat
    \/ FilterFace
    \/ Finish
    \/ Refilter

Spec == Init /\ [][Next]_vars

----------------------------------------------------------------------------
\* Vocabulary of the properties

OutFaces == SelectSeq(out, IsF)
OutVertices == SelectSeq(out, IsV)
OutTextures == SelectSeq(out, IsT)

Emitted == {emitted[k] : k \in 1..Len(emitted)}

\* the vertex-writing loop has run to its end
VerticesWritten == i = Len(index)

Range(m) == {m[k] : k \in DOMAIN m}

Injective(m) == \A a, b \in DOMAIN m : m[a] = m[b] => a = b

HasDuplicates(ix) == \E a, b \in 1..Len(ix) : a # b /\ ix[a] = ix[b]

\* the 1-based position of the last occurrence of v in ix
LastPosition(ix, v) ==
    CHOOSE k \in 1..Len(ix) :
        ix[k] = v /\ \A n \in (k + 1)..Len(ix) : ix[n] # v

CountFormat1 == Cardinality({k \in 1..Len(objFile) : MatchesFormat1(objFile[k])})
CountFormat2 == Cardinality({k \in 1..Len(objFile) : MatchesFormat2(objFile[k])})

\* some reference of the face is an index outside the 0-based table
\* (beyond is 0) or outside it under the file's 1-based reading too (1)
RefsBeyond(face, beyond) ==
    \E j \in 1..Len(face.toks) :
        /\ CanParse(face.toks[j][1])
        /\ ParseInt(face.toks[j][1]) >= Len(vertices) + beyond

BoundaryFits ==
    \A k \in 1..Len(index) :
        InBounds(vertices, index[k]) /\ InBounds(texture, index[k])

Rank(l) == IF IsV(l) THEN 1 ELSE IF IsT(l) THEN 2 ELSE 3

\* the value v occurs in the boundary sequence
InBoundary(v) == \E k \in 1..Len(index) : index[k] = v

\* the three references of a face, read as integers, are pairwise distinct
\* and all values of the boundary sequence
Qualifies(face) ==
    /\ FaceParses(face)
    /\ LET a == ParseInt(face.toks[1][1])
           b == ParseInt(face.toks[2][1])
           c == ParseInt(face.toks[3][1])
       IN  /\ a # b /\ a # c /\ b # c
           /\ InBoundary(a) /\ InBoundary(b) /\ InBoundary(c)

\* C1: every vertex index in an emitted face line is an integer of
\* 1..|B|, so the distinct indices used by the faces are a subset of 1..|B|.
C1_RemappedRange ==
    \A k \in 1..Len(OutFaces) : \A j \in 1..Len(OutFaces[k].toks) :
        /\ CanParse(OutFaces[k].toks[j][1])
        /\ ParseInt(OutFaces[k].toks[j][1]) \in 1..Len(index)

C1_Witness ==
    /\ run = 1 /\ pc = "done"
    /\ Len(OutFaces) >= 1
    /\ Len(index) = 3

\* C2: a face of the detected encoding that the face loop has reached is
\* emitted exactly when its three references are pairwise distinct members
\* of B; no other face is emitted, and a completed run has reached every face.
C2_ExactMembership ==
    /\ Len(OutFaces) = Len(emitted)
    /\ Emitted \subseteq 1..fpos
    /\ \A k \in 1..fpos : (k \in Emitted) <=> Qualifies(format[k])
    /\ pc = "done" => fpos = Len(format)

C2_Witness ==
    /\ pc = "done"
    /\ \E k \in 1..Len(format) : k \in Emitted
    /\ \E k \in 1..Len(format) :
         /\ k \notin Emitted
         /\ FaceParses(format[k])
         /\ \A j \in 1..3 : InBoundary(ParseInt(format[k].toks[j][1]))

\* C3 as stated: after the vertex loop idx_mapping is a bijection from the
\* values of B onto 1..|set(B)| and maps every element of B to its position
\* in B plus one.
C3_Bijection ==
    VerticesWritten =>
        /\ DOMAIN idx_mapping = IndexSet(index)
        /\ Injective(idx_mapping)
        /\ Range(idx_mapping) = 1..Cardinality(IndexSet(index))
        /\ \A k \in 1..Len(index) : idx_mapping[index[k]] = k

\* C3 amended: after the vertex loop idx_mapping is an injection from the
\* values of B into 1..|B| that maps each value to the position of its last
\* occurrence in B plus one (B's order, not sorted order); it is a bijection
\* onto 1..|B| when B has no duplicate value.
C3_LastOccurrence ==
    VerticesWritten =>
        /\ DOMAIN idx_mapping = IndexSet(index)
        /\ Injective(idx_mapping)
        /\ Range(idx_mapping) \subseteq 1..Len(index)
        /\ \A v \in DOMAIN idx_mapping : idx_mapping[v] = LastPosition(index, v)
        /\ ~HasDuplicates(index) => Range(idx_mapping) = 1..Len(index)

C3_Witness ==
    /\ VerticesWritten /\ pc = "detect"
    /\ HasDuplicates(index)
    /\ Len(index) = 3
    /\ index[1] > index[3]

\* C4: a second run on the first run's output with boundary 1..|B| completes
\* and emits the same set of face lines as the first run.
C4_Idempotence ==
    (run = 2 /\ (pc = "done" \/ err # "none")) =>
        (pc = "done" /\ err = "none" /\ FaceSet(out) = firstFaces)

\* C5: the pool is the Format-A matches exactly when they outnumber the
\* Format-B matches and the Format-B matches otherwise (ties included); a
\* line of the other pattern is never emitted.
C5_MajorityRule ==
    /\ pc \in {"vertices", "detect"} => (chosen = "none" /\ Len(OutFaces) = 0)
    /\ pc \in {"faces", "done"} =>
         /\ chosen = "A" <=> CountFormat1 > CountFormat2
         /\ chosen = "B" <=> CountFormat2 >= CountFormat1
         /\ chosen = "A" => format = Format1(objFile)
         /\ chosen = "B" => format = Format2(objFile)
         /\ \A k \in Emitted :
              IF chosen = "A"
              THEN MatchesFormat1(format[k]) /\ ~MatchesFormat2(format[k])
              ELSE MatchesFormat2(format[k]) /\ ~MatchesFormat1(format[k])

C5_Witness ==
    /\ pc = "done" /\ run = 1
    /\ CountFormat1 > CountFormat2 /\ CountFormat2 > 0
    /\ Len(emitted) > 0

\* C6 as stated: a run whose pool holds a face referencing a vertex index
\* outside the vertex table does not complete.
C6_OutOfRangeFatal ==
    ~(/\ pc = "done"
      /\ \E k \in 1..Len(format) : RefsBeyond(format[k], 1))

\* C6 amended: a face referencing an index outside the vertex table raises
\* no IndexError; it is dropped and the pass goes on to the remaining faces.
\* IndexError arises only in the vertex and texture loops, from a value of B
\* outside a table, before any face is read; the face pass aborts only on a
\* reference without digits (ValueError).
C6_OutOfRangeDropped ==
    /\ \A k \in 1..fpos : RefsBeyond(format[k], 0) => k \notin Emitted
    /\ err = "IndexError" =>
         /\ pc = "vertices" /\ fpos = 0 /\ chosen = "none"
         /\ ~BoundaryFits
    /\ (pc = "faces" /\ err # "none") =>
         /\ err = "ValueError"
         /\ fpos < Len(format) /\ ~FaceParses(format[fpos + 1])
    /\ pc = "done" => fpos = Len(format)

C6_Witness ==
    /\ pc = "done" /\ run = 1
    /\ \E k \in 1..Len(format) :
         /\ RefsBeyond(format[k], 1)
         /\ \E n \in Emitted : n > k

\* C7: when every value of B is a valid index of both tables, the run gets
\* past the texture block, and the vertex and texture blocks have |B| rows
\* each, the k-th being V[B[k-1]] and T[B[k-1]].
C7_Alignment ==
    /\ BoundaryFits => err # "IndexError"
    /\ pc \in {"detect", "faces", "done"} =>
         /\ BoundaryFits
         /\ Len(OutVertices) = Len(index)
         /\ Len(OutTextures) = Len(index)
         /\ \A k \in 1..Len(index) :
              /\ OutVertices[k].row = NpGet(vertices, index[k])
              /\ OutTextures[k].row = NpGet(texture, index[k])

C7_Witness ==
    /\ pc = "faces" /\ run = 1
    /\ Len(index) = 3
    /\ index[1] > index[2]
    /\ \E k \in 1..3 : index[k] < 0

\* C8: every emitted face line has three tokens in the source's token
\* order, each of two equal components holding the mapped index of the
\* source token's vertex reference; texture and normal indices are dropped.
C8_FaceRewriting ==
    /\ Len(OutFaces) = Len(emitted)
    /\ \A k \in 1..Len(emitted) :
         /\ Len(OutFaces[k].toks) = 3
         /\ \A j \in 1..3 :
              LET t == OutFaces[k].toks[j] IN
                /\ Len(t) = 2
                /\ t[1] = t[2]
                /\ CanParse(t[1]) /\ t[1][1] # 0
                /\ ParseInt(t[1]) =
                     idx_mapping[ParseInt(format[emitted[k]].toks[j][1])]

C8_Witness ==
    /\ pc = "done" /\ run = 1
    /\ chosen = "A"
    /\ Len(emitted) > 0

\* C9: vertex lines precede texture lines, which precede face lines; faces
\* are emitted in the order of their source records; the mapping holds every
\* value of B before the first face is tested.
C9_OutputOrdering ==
    /\ \A a, b \in 1..Len(out) : a < b => Rank(out[a]) <= Rank(out[b])
    /\ \A a, b \in 1..Len(emitted) : a < b => emitted[a] < emitted[b]
    /\ Len(OutFaces) = Len(emitted)
    /\ \A k \in 1..Len(emitted) : \A j \in 1..3 :
         ParseInt(OutFaces[k].toks[j][1]) =
             idx_mapping[ParseInt(format[emitted[k]].toks[j][1])]
    /\ pc \in {"faces", "done"} =>
         format = IF chosen = "A" THEN Format1(objFile) ELSE Format2(objFile)
    /\ (pc \in {"faces", "done"} \/ fpos > 0 \/ Len(OutFaces) > 0) =>
         /\ i = Len(index)
         /\ \A k \in 1..Len(index) : index[k] \in DOMAIN idx_mapping
         /\ Len(OutTextures) = Len(index)

C9_Witness ==
    /\ pc = "done" /\ run = 1
    /\ Len(emitted) >= 2
    /\ emitted[2] > emitted[1] + 1
    /\ OutFaces[1] # OutFaces[2]

C10_LookupSafe ==
    /\ err # "KeyError"
    /\ pc \in {"faces", "done"} => index_ \subseteq DOMAIN idx_mapping
    /\ (pc = "faces" /\ fpos < Len(format)) =>
         LET f == format[fpos + 1] IN
           (FaceParses(f) /\ KeepFace(get_vertex_indices(f), index_))
               => MappingHas(f, idx_mapping)

\* C10: a face that passes the membership test has all its references among
\* the keys of idx_mapping, so the lookup never raises KeyError; the
\* boundary, its set and the mapping do not change during the face pass.
C10_MappingComplete ==
    /\ []C10_LookupSafe
    /\ [][pc = "faces" => UNCHANGED <<index, index_, idx_mapping>>]_vars

C10_Witness ==
    /\ pc = "faces" /\ run = 1 /\ err = "none"
    /\ HasDuplicates(index)
    /\ fpos < Len(format)
    /\ FaceParses(format[fpos + 1])
    /\ KeepFace(get_vertex_indices(format[fpos + 1]), index_)

====
